---- MODULE Spec2Model ----
(***************************************************************************)
(* Model of examples/aoc-2018-expanded/day7.rs: the precedence graph built *)
(* by parse, the greedy topological sequencer part1 and the multi-worker   *)
(* scheduler part2_internal.                                               *)
(*                                                                         *)
(* A Step is its byte (b'A' = 65).  A graph is a record of a node set and  *)
(* an edge set: node weights are unique (DiGraphMap keys), part1 and       *)
(* part2_internal look nodes up by weight only (min_by_key on the weight,  *)
(* find on the weight, min of the weights), so the petgraph node indices   *)
(* and their renumbering by remove_node do not influence any result.       *)
(***************************************************************************)
EXTENDS Integers, Sequences, FiniteSets, TLC

\* ------------------------------------------------------------------ bounds
NumSteps == 4
MaxEdges == 3
MaxWorkers == 4
MaxBase == 1
MaxOverrun == 2

\* ------------------------------------------------------- program constants
StepA == 65
Utf8Limit == 128
None == 0

VARIABLES call, graph, nb_worker, base_time, pc, remaining, seq, workers,
          started, result, startAt

vars == <<call, graph, nb_worker, base_time, pc, remaining, seq, workers,
          started, result, startAt>>

Steps == StepA .. (StepA + NumSteps - 1)

\* the duration counted from 0: without the + 1
DurationZeroBased(step, base) == (step - StepA) + base

\* Step::duration
Duration(step, base) == (step - StepA + 1) + base

\* ------------------------------------------------------------------- graph
RECURSIVE SumOver(_, _)
SumOver(S, base) ==
    IF S = {} THEN 0
    ELSE LET x == CHOOSE x \in S : TRUE
         IN  Duration(x, base) + SumOver(S \ {x}, base)

\* sum of the durations of all steps of g
TotalDuration(g, base) == SumOver(g.nodes, base)

\* the u32 clocks are followed up to MaxOverrun beyond the total duration
ClockBound(g, base) == TotalDuration(g, base) + MaxOverrun

AllInstructions == Steps \X Steps

RECURSIVE InstructionSets(_)
InstructionSets(k) ==
    IF k = 0 THEN {{}}
    ELSE LET P == InstructionSets(k - 1)
         IN  P \cup {S \cup {e} : S \in P, e \in AllInstructions}

\* a nine-step input on which a third worker lengthens the schedule, with
\* no two steps completing at the same instant:
\* B->E, D->E, E->J, H->C, H->F, H->G, J->I
GrahamInput ==
    {<<66, 69>>, <<68, 69>>, <<69, 74>>, <<72, 67>>, <<72, 70>>, <<72, 71>>,
     <<74, 73>>}

\* an input on which two steps (B and C) complete at the same instant:
\* A->B, B->E, C->D
TieInput == {<<65, 66>>, <<66, 69>>, <<67, 68>>}

\* the INPUT of the tests: C->A, C->F, A->B, A->D, B->E, D->E, F->E
ExampleInput ==
    {<<67, 65>>, <<67, 70>>, <<65, 66>>, <<65, 68>>, <<66, 69>>, <<68, 69>>,
     <<70, 69>>}

\* the two ends of the alphabet, as in the assertions on duration: A->Z
AlphabetEndsInput == {<<65, 90>>}

Inputs ==
    InstructionSets(MaxEdges)
        \cup {GrahamInput, TieInput, ExampleInput, AlphabetEndsInput}

\* parse: every instruction adds its two steps as nodes and one edge
\* required -> step; DiGraphMap keeps one node per step, one edge per pair.
Parse(instructions) ==
    [nodes |-> {e[1] : e \in instructions} \cup {e[2] : e \in instructions},
     edges |-> instructions]

\* externals that forgets the direction filter: every node counts as ready
ExternalsAllNodes(g) == g.nodes

\* externals in the other direction: the nodes without outgoing edge
ExternalsOutgoing(g) == {n \in g.nodes : \A e \in g.edges : e[1] # n}

\* Graph::externals(Direction::Incoming): the nodes without incoming edge
Externals(g) == {n \in g.nodes : \A e \in g.edges : e[2] # n}

\* Graph::remove_node: the node and every edge incident to it
RemoveNode(g, n) ==
    [nodes |-> g.nodes \ {n},
     edges |-> {e \in g.edges : e[1] # n /\ e[2] # n}]

\* the largest step instead of the smallest
MaxStep(S) == CHOOSE x \in S : \A y \in S : x >= y

\* Iterator::min_by_key / Iterator::min on steps (all distinct)
MinStep(S) == CHOOSE x \in S : \A y \in S : x <= y

\* -------------------------------------------------------------------- part1
\* one iteration of the loop of part1 on st = [remaining, seq, pc, result]
Part1Iter(st) ==
    LET ext == Externals(st.remaining) IN
    IF ext # {}
    THEN LET i == MinStep(ext) IN
         [st EXCEPT !.remaining = RemoveNode(st.remaining, i),
                    !.seq = Append(st.seq, i)]
    ELSE [st EXCEPT !.pc = "done",
                    !.result = [ok  |-> \A k \in 1..Len(st.seq) : st.seq[k] < Utf8Limit,
                                val |-> st.seq]]

Part1State == [remaining |-> remaining, seq |-> seq, pc |-> pc, result |-> result]

\* ----------------------------------------------------------- part2_internal
Contains(s, x) == \E k \in 1..Len(s) : s[k] = x

\* the comparator with the tie-break reversed: an idle worker first
WorkerCmpIdleFirst(a, b) ==
    IF a.time < b.time THEN -1
    ELSE IF a.time > b.time THEN 1
    ELSE IF a.job = None /\ b.job # None THEN -1
    ELSE IF a.job # None /\ b.job = None THEN 1
    ELSE 0

\* the comparator given to min_by: clock first, then a worker holding a job
\* before an idle one; -1 = Less, 0 = Equal, 1 = Greater
WorkerCmp(a, b) ==
    IF a.time < b.time THEN -1
    ELSE IF a.time > b.time THEN 1
    ELSE IF a.job # None /\ b.job = None THEN -1
    ELSE IF a.job = None /\ b.job # None THEN 1
    ELSE 0

\* Iterator::min_by: the first of the equally minimum elements
SelectWorker(ws) ==
    CHOOSE i \in DOMAIN ws :
        /\ \A j \in DOMAIN ws : WorkerCmp(ws[i], ws[j]) <= 0
        /\ \A j \in DOMAIN ws : j < i => WorkerCmp(ws[j], ws[i]) > 0

\* derived Ord of (Option<Step>, u32): None < Some(_), Some by step, then time
TupleLeq(a, b) == a.job < b.job \/ (a.job = b.job /\ a.time <= b.time)

\* workers.into_iter().max().unwrap().1
WorkersMax(ws) ==
    LET i == CHOOSE i \in DOMAIN ws : \A j \in DOMAIN ws : TupleLeq(ws[j], ws[i])
    IN  ws[i].time

\* the emptiness test off by one
NodeCountIsOne(rem) == Cardinality(rem.nodes) = 1

\* remaining.node_count() == 0
NodeCountIsZero(rem) == rem.nodes = {}

\* a retirement that takes the job but leaves its node in the graph
RetireKeepsNode(rem, job) == rem

\* the job.take() block: the finished step is looked up among the externals
\* of remaining (find(..).unwrap()) and its node removed
Retire(rem, job) == IF job # None THEN RemoveNode(rem, job) ELSE rem

\* the ready steps without the filter on started
AssignableUnfiltered(rem, st) == Externals(rem)

\* externals of remaining that are not in started
Assignable(rem, st) == {s \in Externals(rem) : ~Contains(st, s)}

\* the assignment with the clock overwritten instead of advanced
AssignOverwrite(worker, step, base) ==
    [job |-> step, time |-> Duration(step, base)]

\* *job = Some(step); *time += step.duration(base_time)
AssignTo(worker, step, base) ==
    [job |-> step, time |-> worker.time + Duration(step, base)]

\* an idle tick that leaves the clock where it is
IdleTickStalls(worker) == [job |-> None, time |-> worker.time]

\* *time += 1 (the job was taken by job.take())
IdleTick(worker) == [job |-> None, time |-> worker.time + 1]

\* one iteration of the loop of part2_internal on
\* st = [remaining, workers, started, pc, result]
Part2Iter(st, base) ==
    IF st.workers = <<>>
    THEN [st EXCEPT !.pc = "panic_min_by"]
    ELSE
    LET w    == SelectWorker(st.workers)
        job  == st.workers[w].job
    IN
    IF job # None /\ job \notin Externals(st.remaining)
    THEN [st EXCEPT !.pc = "panic_find"]
    ELSE
    LET rem  == Retire(st.remaining, job)
        cand == Assignable(rem, st.started)
    IN
    IF cand # {}
    THEN LET step == MinStep(cand) IN
         [st EXCEPT !.remaining = rem,
                    !.started = Append(st.started, step),
                    !.workers[w] = AssignTo(st.workers[w], step, base)]
    ELSE IF NodeCountIsZero(rem)
    THEN LET ws == [st.workers EXCEPT ![w].job = None] IN
         [st EXCEPT !.remaining = rem,
                    !.workers = ws,
                    !.pc = "done",
                    !.result = WorkersMax(ws)]
    ELSE [st EXCEPT !.remaining = rem,
                    !.workers[w] = IdleTick(st.workers[w])]

\* which arm of the loop body the next iteration takes
Part2Branch(st) ==
    IF st.workers = <<>> THEN "panic"
    ELSE
    LET w   == SelectWorker(st.workers)
        job == st.workers[w].job
    IN
    IF job # None /\ job \notin Externals(st.remaining) THEN "panic"
    ELSE LET rem == Retire(st.remaining, job) IN
         IF Assignable(rem, st.started) # {} THEN "assign"
         ELSE IF NodeCountIsZero(rem) THEN "break"
         ELSE "tick"

Part2Start(g, n) ==
    [remaining |-> g,
     workers   |-> [w \in 1..n |-> [job |-> None, time |-> 0]],
     started   |-> <<>>,
     pc        |-> "loop",
     result    |-> 0]

\* the whole call, iterated until the loop is left; a clock beyond bound
\* ends the evaluation with pc = "loop" (the run has not returned)
RECURSIVE Part2Run(_, _, _)
Part2Run(st, base, bound) ==
    IF st.pc # "loop" \/ \E w \in DOMAIN st.workers : st.workers[w].time > bound
    THEN st
    ELSE Part2Run(Part2Iter(st, base), base, bound)

part2_internal(g, n, base) == Part2Run(Part2Start(g, n), base, ClockBound(g, base))

\* -------------------------------------------------------------------- Init
NoResult == [ok |-> FALSE, val |-> <<>>]

Part2State ==
    [remaining |-> remaining, workers |-> workers, started |-> started,
     pc |-> pc, result |-> result]

Init ==
    /\ \E ins \in Inputs : graph = Parse(ins)
    /\ call \in {"part1", "part2"}
    /\ IF call = "part2"
       THEN nb_worker \in 0..MaxWorkers /\ base_time \in 0..MaxBase
       ELSE nb_worker = 0 /\ base_time = 0
    /\ pc = "loop"
    /\ remaining = graph
    /\ seq = <<>>
    /\ workers = [w \in 1..nb_worker |-> [job |-> None, time |-> 0]]
    /\ started = <<>>
    /\ result = NoResult
    /\ startAt = [s \in {} |-> 0]

Part1Push ==
    /\ call = "part1" /\ pc = "loop"
    /\ Externals(remaining) # {}
    /\ LET st == Part1Iter(Part1State) IN
         /\ remaining' = st.remaining
         /\ seq' = st.seq
         /\ pc' = st.pc
         /\ result' = st.result
    /\ UNCHANGED <<call, graph, nb_worker, base_time, workers, started, startAt>>

Part1Break ==
    /\ call = "part1" /\ pc = "loop"
    /\ Externals(remaining) = {}
    /\ LET st == Part1Iter(Part1State) IN
         /\ remaining' = st.remaining
         /\ seq' = st.seq
         /\ pc' = st.pc
         /\ result' = st.result
    /\ UNCHANGED <<call, graph, nb_worker, base_time, workers, started, startAt>>

\* the iteration of part2_internal with the bookkeeping of start times
Part2Step ==
    LET st == Part2Iter(Part2State, base_time)
        w  == SelectWorker(workers)
    IN
    /\ remaining' = st.remaining
    /\ workers' = st.workers
    /\ started' = st.started
    /\ pc' = st.pc
    /\ result' = st.result
    /\ startAt' = IF Len(st.started) > Len(started)
                  THEN (st.started[Len(st.started)] :> workers[w].time) @@ startAt
                  ELSE startAt
    /\ UNCHANGED <<call, graph, nb_worker, base_time, seq>>

Part2Assign ==
    /\ call = "part2" /\ pc = "loop"
    /\ Part2Branch(Part2State) = "assign"
    /\ Part2Step

\* the idle tick; the u32 clock is followed up to ClockBound
Part2Tick ==
    /\ call = "part2" /\ pc = "loop"
    /\ Part2Branch(Part2State) = "tick"
    /\ workers[SelectWorker(workers)].time < ClockBound(graph, base_time)
    /\ Part2Step

\* the loop is left: by break with the result, or by the panic of an unwrap
\* (of min_by without workers, of find without the finished step)
Part2Exit ==
    /\ call = "part2" /\ pc = "loop"
    /\ Part2Branch(Part2State) \in {"break", "panic"}
    /\ Part2Step

Next == Part1Push \/ Part1Break \/ Part2Assign \/ Part2Tick \/ Part2Exit

Spec == Init /\ [][Next]_vars

\* the loop runs on: no iteration waits for anything
FairSpec == Spec /\ WF_vars(Next)

\* --------------------------------------------------------------- vocabulary
\* transitive closure of an edge relation
RECURSIVE TransitiveClosure(_)
TransitiveClosure(R) ==
    LET R2 == R \cup {<<p[1][1], p[2][2]>> : p \in {q \in R \X R : q[1][2] = q[2][1]}}
    IN  IF R2 = R THEN R ELSE TransitiveClosure(R2)

Acyclic(g) == \A e \in TransitiveClosure(g.edges) : e[1] # e[2]

Range(s) == {s[k] : k \in 1..Len(s)}

\* position of step x in sequence s (0 if absent)
Pos(s, x) == IF \E k \in 1..Len(s) : s[k] = x
             THEN CHOOSE k \in 1..Len(s) : s[k] = x
             ELSE 0

\* s lists every node of g exactly once and respects every edge
ValidOrder(g, s) ==
    /\ Len(s) = Cardinality(g.nodes)
    /\ Range(s) = g.nodes
    /\ \A e \in g.edges : Pos(s, e[1]) < Pos(s, e[2])

\* the orders of the node set S in which every step comes after all of
\* its required steps, built front to back
RECURSIVE OrdersOf(_, _)
OrdersOf(g, S) ==
    IF S = {} THEN {<<>>}
    ELSE UNION {{<<n>> \o o : o \in OrdersOf(g, S \ {n})} :
                n \in {m \in S : \A e \in g.edges : e[2] = m => e[1] \notin S}}

TopoOrders(g) == OrdersOf(g, g.nodes)

\* a <= b in the lexicographic order, for sequences of equal length
LexLeq(a, b) ==
    \/ a = b
    \/ \E k \in 1..Len(a) : a[k] < b[k] /\ \A j \in 1..(k - 1) : a[j] = b[j]

Part1Done == call = "part1" /\ pc = "done"
Part2Done == call = "part2" /\ pc = "done"

\* ------------------------------------------------------------------ claims
\* C1: for an acyclic graph the sequence returned by part1 holds every node
\* exactly once and places the required step of every edge strictly before
\* the dependent step.
C1_SequenceIsTopologicalOrder ==
    (Part1Done /\ Acyclic(graph)) =>
        /\ result.ok
        /\ Len(result.val) = Cardinality(graph.nodes)
        /\ Range(result.val) = graph.nodes
        /\ \A e \in graph.edges :
              /\ Pos(result.val, e[1]) > 0
              /\ Pos(result.val, e[1]) < Pos(result.val, e[2])

C1_Witness ==
    /\ Part1Done /\ Acyclic(graph)
    /\ Cardinality(graph.nodes) >= 3
    /\ \E e \in graph.edges : e[1] > e[2]
    /\ Len(result.val) = Cardinality(graph.nodes)

\* C2: for an acyclic graph the sequence returned by part1 is a valid
\* topological order and is lexicographically smallest among all of them.
C2_LexSmallestOrder ==
    (Part1Done /\ Acyclic(graph)) =>
        /\ ValidOrder(graph, result.val)
        /\ result.val \in TopoOrders(graph)
        /\ \A o \in TopoOrders(graph) : LexLeq(result.val, o)

C2_Witness ==
    /\ Part1Done /\ Acyclic(graph)
    /\ Cardinality(TopoOrders(graph)) >= 3
    /\ \E o \in TopoOrders(graph) : o[1] # result.val[1]

\* the longest duration-weighted dependency chain that starts at step n
RECURSIVE ChainFrom(_, _, _)
ChainFrom(g, n, base) ==
    LET succ == {e[2] : e \in {f \in g.edges : f[1] = n}}
        tails == {ChainFrom(g, m, base) : m \in succ}
    IN  Duration(n, base) +
        (IF tails = {} THEN 0 ELSE CHOOSE t \in tails : \A u \in tails : u <= t)

LongestChain(g, base) ==
    LET chains == {ChainFrom(g, n, base) : n \in g.nodes}
    IN  IF chains = {} THEN 0 ELSE CHOOSE t \in chains : \A u \in chains : u <= t

\* the largest clock of any worker
MaxClockOf(ws) ==
    LET times == {ws[w].time : w \in DOMAIN ws}
    IN  CHOOSE t \in times : \A u \in times : u <= t

\* the largest completion time (start + duration) of the steps assigned so far
LastCompletion ==
    LET ends == {startAt[s] + Duration(s, base_time) : s \in DOMAIN startAt}
    IN  IF ends = {} THEN 0 ELSE CHOOSE t \in ends : \A u \in ends : u <= t

\* C3 as stated: one more worker never gives a larger result.
C3_MonotoneInWorkers ==
    (Part2Done /\ Acyclic(graph)) =>
        LET more == part2_internal(graph, nb_worker + 1, base_time)
        IN  more.pc = "done" /\ more.result <= result

\* C3 (amended): for an acyclic graph the result with any number of workers
\* is never greater than the result with one worker.
C3_NeverSlowerThanOneWorker ==
    (Part2Done /\ Acyclic(graph)) =>
        LET one == part2_internal(graph, 1, base_time)
        IN  one.pc = "done" /\ result <= one.result

C3_Witness ==
    /\ Part2Done /\ Acyclic(graph)
    /\ nb_worker >= 2
    /\ result < part2_internal(graph, 1, base_time).result
    /\ result > part2_internal(graph, nb_worker - 1, base_time).result

\* C4: for an acyclic graph the result is at least the longest
\* duration-weighted dependency chain and at most the sum of all durations.
C4_BetweenChainAndTotal ==
    (Part2Done /\ Acyclic(graph)) =>
        /\ LongestChain(graph, base_time) <= result
        /\ result <= TotalDuration(graph, base_time)

C4_Witness ==
    /\ Part2Done /\ Acyclic(graph)
    /\ nb_worker >= 2
    /\ LongestChain(graph, base_time) < result
    /\ result < TotalDuration(graph, base_time)

\* C5: with one worker and base duration 0 the result on an acyclic graph
\* is the sum of duration(step, 0) over all steps.
C5_OneWorkerIsSum ==
    (Part2Done /\ Acyclic(graph) /\ nb_worker = 1 /\ base_time = 0) =>
        result = TotalDuration(graph, 0)

C5_Witness ==
    /\ Part2Done /\ Acyclic(graph) /\ nb_worker = 1 /\ base_time = 0
    /\ Cardinality(graph.nodes) >= 4
    /\ result = 10

\* C6: with at least as many workers as nodes the result on an acyclic graph
\* is the longest duration-weighted dependency chain.
C6_EnoughWorkersGiveChain ==
    (Part2Done /\ Acyclic(graph) /\ nb_worker >= Cardinality(graph.nodes)) =>
        result = LongestChain(graph, base_time)

\* C7: the returned value is the largest worker clock at loop termination,
\* and that is the largest completion time of any step of the schedule.
C7_ResultIsLastCompletion ==
    Part2Done =>
        /\ result = MaxClockOf(workers)
        /\ MaxClockOf(workers) = LastCompletion

\* C8: on a graph with a cycle part1 does not return a sequence as a
\* successful result (it fails with CycleDetected).
C8_SequencerRejectsCycle ==
    (Part1Done /\ ~Acyclic(graph)) => ~result.ok

\* no worker holds a job and nothing is assignable while nodes remain:
\* no step can ever become ready
Part2Stuck ==
    /\ call = "part2" /\ pc = "loop"
    /\ remaining.nodes # {}
    /\ \A w \in DOMAIN workers : workers[w].job = None
    /\ Assignable(remaining, started) = {}

\* C9: when nodes remain and no step can ever become ready the scheduler
\* stops (reporting CycleDetected) instead of advancing an idle clock.
C9_SchedulerStopsOnCycle ==
    [][Part2Stuck => pc' # "loop"]_vars

\* sum of the distances of the worker clocks from the bound
RECURSIVE ClockSlack(_, _)
ClockSlack(ws, bound) ==
    IF ws = <<>> THEN 0
    ELSE (bound - Head(ws).time) + ClockSlack(Tail(ws), bound)

\* the termination measure: nodes still to remove plus clock slack
Rank ==
    Cardinality(remaining.nodes)
        + ClockSlack(workers, TotalDuration(graph, base_time))

\* the next iteration changes the state and is within the clock bound
Progresses ==
    IF call = "part1"
    THEN Part1Iter(Part1State) # Part1State
    ELSE /\ Part2Iter(Part2State, base_time) # Part2State
         /\ Part2Branch(Part2State) = "tick" =>
                workers[SelectWorker(workers)].time < ClockBound(graph, base_time)

\* C10: on an acyclic graph both loops terminate.  While the loop runs a
\* further iteration is always possible, no clock exceeds the total duration,
\* every continuing iteration of part1 removes exactly one node, and every
\* iteration of part2_internal on a non-empty remaining graph advances the
\* selected worker's clock or removes a node, so that the measure Rank (a
\* natural number) strictly decreases until the loop is left.
C10_Terminates ==
    /\ []((pc = "loop" /\ Acyclic(graph) /\ (call = "part2" => nb_worker >= 1)) =>
            /\ Progresses
            /\ \A w \in DOMAIN workers :
                  workers[w].time <= TotalDuration(graph, base_time)
            /\ Rank >= 0)
    /\ [][(call = "part1" /\ pc = "loop" /\ pc' = "loop" /\ Acyclic(graph)) =>
            /\ remaining'.nodes \subseteq remaining.nodes
            /\ Rank' = Rank - 1]_vars
    /\ [][(call = "part2" /\ nb_worker >= 1 /\ pc = "loop" /\ Acyclic(graph)
              /\ remaining.nodes # {}) =>
            /\ remaining'.nodes \subseteq remaining.nodes
            /\ \/ workers'[SelectWorker(workers)].time > workers[SelectWorker(workers)].time
               \/ remaining'.nodes # remaining.nodes
            /\ Rank' < Rank
            /\ pc' \in {"loop", "done"}]_vars

C10_Witness ==
    /\ Part2Done /\ Acyclic(graph)
    /\ nb_worker >= 2
    /\ Cardinality(graph.nodes) >= 4
    /\ Len(started) = Cardinality(graph.nodes)
    /\ \E w \in DOMAIN workers : workers[w].time < result

\* C11: on the example graph (edges C->A, C->F, A->B, A->D, B->E, D->E,
\* F->E) part1 returns "CABDFE" and part2_internal with 2 workers and base
\* duration 0 returns 15.
C11_ExampleResults ==
    graph = Parse(ExampleInput) =>
        /\ Part1Done => result = [ok |-> TRUE, val |-> <<67, 65, 66, 68, 70, 69>>]
        /\ (Part2Done /\ nb_worker = 2 /\ base_time = 0) => result = 15

C11_Witness ==
    /\ graph = Parse(ExampleInput)
    /\ Part2Done /\ nb_worker = 2 /\ base_time = 0
    /\ Len(started) = 6

\* C12: part2_internal called with fewer than 1 worker ends with an
\* InvalidParameters error: it neither panics nor returns a time.
C12_NoWorkersIsInvalidParameters ==
    (call = "part2" /\ nb_worker < 1 /\ pc # "loop") => pc = "invalid_parameters"

\* C13: on the empty graph part1 returns the empty sequence and
\* part2_internal (any N >= 1, any B) returns 0, in one iteration, without
\* error, without assigning a step and without advancing a clock.
C13_EmptyGraph ==
    /\ [](graph.nodes = {} =>
            /\ call = "part1" =>
                  /\ seq = <<>>
                  /\ pc \in {"loop", "done"}
                  /\ pc = "done" => result = [ok |-> TRUE, val |-> <<>>]
            /\ (call = "part2" /\ nb_worker >= 1) =>
                  /\ pc \in {"loop", "done"}
                  /\ started = <<>>
                  /\ \A w \in DOMAIN workers :
                        workers[w].job = None /\ workers[w].time = 0
                  /\ pc = "done" => result = 0)
    /\ [][(graph.nodes = {} /\ pc = "loop" /\ (call = "part2" => nb_worker >= 1))
            => pc' = "done"]_vars

C13_Witness ==
    /\ graph.nodes = {}
    /\ Part2Done /\ nb_worker >= 2 /\ base_time >= 1
    /\ result = 0

\* the steps of S none of whose required steps is in S
ReadyAmong(g, S) == {m \in S : \A e \in g.edges : e[2] = m => e[1] \notin S}

Least(S) == CHOOSE x \in S : \A y \in S : x <= y

\* the first k choices of "smallest ready step first" on the node set S
RECURSIVE Greedy(_, _, _)
Greedy(g, S, k) ==
    IF k = 0 \/ ReadyAmong(g, S) = {} THEN <<>>
    ELSE LET n == Least(ReadyAmong(g, S))
         IN  <<n>> \o Greedy(g, S \ {n}, k - 1)

\* C14: in every iteration of part1 in which some node of the remaining
\* graph has no incoming edge, the step appended is the smallest of those
\* nodes; the sequence built so far and the returned sequence are therefore
\* determined by the node set and the edge set of the graph alone.
C14_SmallestReadyFirst ==
    /\ [](call = "part1" =>
            /\ seq = Greedy(graph, graph.nodes, Len(seq))
            /\ pc = "done" =>
                  result.val = Greedy(graph, graph.nodes, Cardinality(graph.nodes)))
    /\ [][(call = "part1" /\ pc = "loop"
              /\ ReadyAmong(graph, remaining.nodes) # {}) =>
            seq' = Append(seq, Least(ReadyAmong(graph, remaining.nodes)))]_vars

C14_Witness ==
    /\ call = "part1"
    /\ Len(seq) >= 2
    /\ Cardinality(ReadyAmong(graph, remaining.nodes \cup {seq[Len(seq)]})) >= 2
    /\ remaining.nodes # {}

\* the alphabet of step identifiers, A..Z
Alphabet ==
    <<65, 66, 67, 68, 69, 70, 71, 72, 73, 74, 75, 76, 77,
      78, 79, 80, 81, 82, 83, 84, 85, 86, 87, 88, 89, 90>>

\* 0-based position of a step in the alphabet
Ordinal(step) == (CHOOSE k \in 1..Len(Alphabet) : Alphabet[k] = step) - 1

\* C15: for every step of A..Z and every base offset, duration(step, B) is
\* the 0-based position of the step in the alphabet + 1 + B, so that
\* duration(A, 0) = 1, duration(Z, 0) = 26 and the value is at least 1 + B
\* (evaluated for the base offset of the call, before its first assignment);
\* a worker's clock advances by exactly that amount when it is given a step.
C15_Duration ==
    /\ started = <<>> =>
          \A s \in Range(Alphabet) :
              /\ Duration(s, base_time) = Ordinal(s) + 1 + base_time
              /\ Duration(s, base_time) >= 1 + base_time
    /\ Duration(Alphabet[1], 0) = 1
    /\ Duration(Alphabet[Len(Alphabet)], 0) = 26
    /\ \A w \in DOMAIN workers :
          workers[w].job # None =>
              workers[w].time =
                  startAt[workers[w].job] + Ordinal(workers[w].job) + 1 + base_time

C15_Witness ==
    /\ call = "part2" /\ base_time = 1
    /\ \E w \in DOMAIN workers :
          /\ workers[w].job = Alphabet[Len(Alphabet)]
          /\ workers[w].time = startAt[workers[w].job] + 27

\* the iteration gives the selected worker a new step
AssignsStep == call = "part2" /\ pc = "loop" /\ Len(started') > Len(started)

\* C16: completions are processed before assignments of the same instant:
\* whenever a worker is given a step at clock t, no other worker still holds
\* a job whose completion clock is <= t; and the worker selected in an
\* iteration has the minimum clock, a busy one preferred on ties.
C16_CompletionsBeforeAssignments ==
    [][(call = "part2" /\ pc = "loop" /\ nb_worker >= 1) =>
          LET w == SelectWorker(workers)
              t == workers[w].time
          IN  /\ \A v \in DOMAIN workers :
                    /\ t <= workers[v].time
                    /\ (workers[v].time = t /\ workers[v].job # None)
                          => workers[w].job # None
              /\ AssignsStep =>
                    \A v \in DOMAIN workers :
                        (v # w /\ workers[v].job # None) => workers[v].time > t]_vars

\* the steps held by workers, one entry per holding worker
HeldBy(s) == {w \in DOMAIN workers : workers[w].job = s}

\* C17: a step is given to a worker at most once: started never lists a step
\* twice, an assignment never takes a step that is already in started, no two
\* workers hold the same step, and when the run on an acyclic graph returns
\* every step of the graph has been assigned exactly once.
C17_AssignedAtMostOnce ==
    /\ [](call = "part2" =>
            /\ \A i, j \in 1..Len(started) : started[i] = started[j] => i = j
            /\ \A s \in graph.nodes : Cardinality(HeldBy(s)) <= 1
            /\ \A w \in DOMAIN workers :
                  workers[w].job # None => Contains(started, workers[w].job)
            /\ (pc = "done" /\ Acyclic(graph)) =>
                  /\ Range(started) = graph.nodes
                  /\ Len(started) = Cardinality(graph.nodes))
    /\ [][AssignsStep =>
            /\ Len(started') = Len(started) + 1
            /\ ~Contains(started, started'[Len(started')])
            /\ SubSeq(started', 1, Len(started)) = started]_vars

C17_Witness ==
    /\ Part2Done /\ Acyclic(graph)
    /\ nb_worker >= 3
    /\ Len(started) >= 5
    /\ \E s \in DOMAIN startAt : \E t \in DOMAIN startAt : s # t /\ startAt[s] = startAt[t]

\* C18: the simulated schedule respects every edge required -> dependent:
\* the dependent step is assigned only when the required step has been
\* retired (is no longer a node of remaining), and it starts no earlier than
\* the required step completes.
C18_PrecedenceRespected ==
    call = "part2" =>
        \A e \in graph.edges :
            e[2] \in DOMAIN startAt =>
                /\ e[1] \in DOMAIN startAt
                /\ e[1] \notin remaining.nodes
                /\ startAt[e[2]] >= startAt[e[1]] + Duration(e[1], base_time)

C18_Witness ==
    /\ Part2Done /\ nb_worker >= 2
    /\ \E e \in graph.edges :
          /\ e[2] \in DOMAIN startAt /\ e[1] \in DOMAIN startAt
          /\ startAt[e[2]] > startAt[e[1]] + Duration(e[1], base_time)

\* C20: every step held by a worker is a node of remaining without incoming
\* edge, so the lookup of the finished step never fails and the iteration of
\* a worker holding a step removes exactly that node; when remaining is empty
\* no worker holds a job.
C20_HeldStepsAreReady ==
    /\ [](call = "part2" =>
            /\ pc # "panic_find"
            /\ \A w \in DOMAIN workers :
                  workers[w].job # None =>
                      /\ workers[w].job \in remaining.nodes
                      /\ \A e \in remaining.edges : e[2] # workers[w].job
            /\ remaining.nodes = {} =>
                  \A w \in DOMAIN workers : workers[w].job = None)
    /\ [][(call = "part2" /\ pc = "loop" /\ nb_worker >= 1) =>
            LET job == workers[SelectWorker(workers)].job
            IN  remaining'.nodes =
                    (IF job # None THEN remaining.nodes \ {job} ELSE remaining.nodes)]_vars

C20_Witness ==
    /\ Part2Done /\ nb_worker >= 2
    /\ Len(started) >= 4
    /\ remaining.nodes = {}
    /\ \E w \in DOMAIN workers : workers[w].time < result

\* --------------------------------------------- the scheduler with idle jumps
\* the idle tick replaced by a jump to the minimum clock of the workers that
\* currently hold a job (others: the workers other than the selected one);
\* without a busy worker the clock advances by 1
IdleJump(worker, others) ==
    LET busy == {others[v].time : v \in {u \in DOMAIN others : others[u].job # None}}
    IN  [job  |-> None,
         time |-> IF busy = {} THEN worker.time + 1
                  ELSE CHOOSE t \in busy : \A u \in busy : t <= u]

\* one iteration of the loop with idle jumps on
\* st = [remaining, workers, started, pc, result, startAt]
JumpIter(st, base) ==
    IF st.workers = <<>>
    THEN [st EXCEPT !.pc = "panic_min_by"]
    ELSE
    LET w    == SelectWorker(st.workers)
        job  == st.workers[w].job
    IN
    IF job # None /\ job \notin Externals(st.remaining)
    THEN [st EXCEPT !.pc = "panic_find"]
    ELSE
    LET rem    == Retire(st.remaining, job)
        cand   == Assignable(rem, st.started)
        others == [v \in DOMAIN st.workers \ {w} |-> st.workers[v]]
    IN
    IF cand # {}
    THEN LET step == MinStep(cand) IN
         [st EXCEPT !.remaining = rem,
                    !.started = Append(st.started, step),
                    !.startAt = (step :> st.workers[w].time) @@ st.startAt,
                    !.workers[w] = AssignTo(st.workers[w], step, base)]
    ELSE IF NodeCountIsZero(rem)
    THEN LET ws == [st.workers EXCEPT ![w].job = None] IN
         [st EXCEPT !.remaining = rem,
                    !.workers = ws,
                    !.pc = "done",
                    !.result = WorkersMax(ws)]
    ELSE [st EXCEPT !.remaining = rem,
                    !.workers[w] = IdleJump(st.workers[w], others)]

RECURSIVE JumpRun(_, _, _)
JumpRun(st, base, bound) ==
    IF st.pc # "loop" \/ \E w \in DOMAIN st.workers : st.workers[w].time > bound
    THEN st
    ELSE JumpRun(JumpIter(st, base), base, bound)

part2_jumping(g, n, base) ==
    JumpRun([remaining |-> g,
             workers   |-> [w \in 1..n |-> [job |-> None, time |-> 0]],
             started   |-> <<>>,
             pc        |-> "loop",
             result    |-> 0,
             startAt   |-> [s \in {} |-> 0]],
            base, ClockBound(g, base))

\* C19: with the idle tick replaced by a jump to the minimum clock of the
\* busy workers the scheduler returns the same result as part2_internal on
\* every acyclic graph, for every N >= 1 and B, and starts every step at the
\* same instant.
C19_JumpEqualsTick ==
    (Part2Done /\ Acyclic(graph) /\ nb_worker >= 1) =>
        LET j == part2_jumping(graph, nb_worker, base_time)
        IN  /\ j.pc = "done"
            /\ j.result = result
            /\ j.startAt = startAt
====
